---- MODULE Spec2Model ----
(***************************************************************************)
(* ThinkLab host monitor (hostmon.py): the two rate trackers (CpuPercent,  *)
(* NetRates), snapshot assembly and the serial protocol loop (serve).      *)
(*                                                                         *)
(* Conventions.                                                            *)
(*  - Python None is the empty sequence, a present value x is <<x>>.       *)
(*  - A CPU percentage is an integer number of tenths of a percent         *)
(*    (round(usage, 1) has one decimal): 0..1000 stands for 0.0..100.0.    *)
(*  - Time is counted in ticks of half a millisecond (TicksPerSec ticks    *)
(*    per second); byte rates are bytes per second.                        *)
(*  - A call's outcome is a record: kind "return" with a value, or kind    *)
(*    "raise" with the name of the Python exception.                       *)
(***************************************************************************)
EXTENDS Integers, Sequences, FiniteSets, TLC

VARIABLES cpu_calc, cpu_out, net_calc, net_out,
          pc, path_exists, op, line, answered, wire, fault, hostname,
          count, sent, reader_out

vars == <<cpu_calc, cpu_out, net_calc, net_out,
          pc, path_exists, op, line, answered, wire, fault, hostname,
          count, sent, reader_out>>

cpuVars == <<cpu_calc, cpu_out>>
netVars == <<net_calc, net_out>>
serveVars == <<pc, path_exists, op, line, answered, wire, fault, hostname, count, sent>>
readerVars == <<reader_out>>

None == <<>>
Some(x) == <<x>>
Get(o) == o[1]

Max(a, b) == IF a >= b THEN a ELSE b
Min(a, b) == IF a <= b THEN a ELSE b

RECURSIVE SumSeq(_)
SumSeq(s) == IF s = <<>> THEN 0 ELSE Head(s) + SumSeq(Tail(s))

(***************************************************************************)
(* Text: a string is a sequence of one-character strings.                  *)
(***************************************************************************)
Whitespace == {" ", "\t", "\r", "\n"}

RECURSIVE lstrip(_)
lstrip(t) == IF t # <<>> /\ Head(t) \in Whitespace THEN lstrip(Tail(t)) ELSE t

RECURSIVE rstrip(_)
rstrip(t) ==
    IF t # <<>> /\ t[Len(t)] \in Whitespace THEN rstrip(SubSeq(t, 1, Len(t) - 1)) ELSE t

\* str.strip()
strip(t) == rstrip(lstrip(t))

(***************************************************************************)
(* Bounds of the model.                                                    *)
(***************************************************************************)
MaxTicks == 2      \* largest value of one /proc/stat bucket
MaxWrites == 2     \* responses kept on the modelled wire
MaxGets == 2       \* GET commands read in one session

(***************************************************************************)
(* CpuPercent                                                              *)
(***************************************************************************)
CpuInit == [prev_total |-> None, prev_idle |-> None, value |-> None]

\* The contents of /proc/stat's first line after the "cpu" label, or None
\* when the file cannot be opened.
StatSources ==
    {None}
    \cup {Some(<<u, 0, 0, i, w>>) : u \in 0..MaxTicks, i \in 0..MaxTicks, w \in 0..1}
    \cup {Some(<<1, 0, 0, 1, 0, 0, 0, 0, 5>>), Some(<<1, 2>>), Some(<<0, 0, 0, 1>>)}

\* _read_stat: idle = vals[3] + vals[4] (when present), total = sum(vals[:8]).
read_stat(src) ==
    IF src = None
    THEN [kind |-> "raise", exc |-> "FileNotFoundError", total |-> 0, idle |-> 0]
    ELSE LET vals == Get(src) IN
         IF Len(vals) < 4
         THEN [kind |-> "raise", exc |-> "IndexError", total |-> 0, idle |-> 0]
         ELSE [kind |-> "return", exc |-> "",
               total |-> SumSeq(SubSeq(vals, 1, Min(8, Len(vals)))),
               idle |-> vals[4] + (IF Len(vals) > 4 THEN vals[5] ELSE 0)]

\* round(n/d, 0) for d > 0, ties to even (Python's round).
RoundHalfEven(n, d) ==
    LET q == n \div d
        r == n % d
    IN IF 2 * r < d THEN q
       ELSE IF 2 * r > d THEN q + 1
       ELSE IF q % 2 = 0 THEN q ELSE q + 1

UsageNoClamp(di, dt) == RoundHalfEven(1000 * (dt - di), dt)

\* round(max(0.0, min(100.0, (1.0 - di/float(dt)) * 100.0)), 1), in tenths.
Usage(di, dt) ==
    LET n == 1000 * (dt - di)
        c == IF n < 0 THEN <<0, 1>>
             ELSE IF n > 1000 * dt THEN <<1000, 1>>
             ELSE <<n, dt>>
    IN RoundHalfEven(c[1], c[2])

\* di/float(dt) and what follows it (lines 92-94): Python's division raises
\* ZeroDivisionError on a zero divisor.
CpuDivide(st, dt, di) ==
    IF dt = 0
    THEN [st |-> st, kind |-> "raise", val |-> None, exc |-> "ZeroDivisionError"]
    ELSE [st |-> [st EXCEPT !.value = Some(Usage(di, dt))],
          kind |-> "return", val |-> Some(Usage(di, dt)), exc |-> ""]

CpuRateStrictGuard(st, dt, di) ==
    IF dt < 0
    THEN [st |-> [st EXCEPT !.value = None], kind |-> "return", val |-> None, exc |-> ""]
    ELSE CpuDivide(st, dt, di)

\* The dt <= 0 guard (lines 89-91) and the rate behind it.
CpuRate(st, dt, di) ==
    IF dt <= 0
    THEN [st |-> [st EXCEPT !.value = None], kind |-> "return", val |-> None, exc |-> ""]
    ELSE CpuDivide(st, dt, di)

\* The store of the current reading as the prior sample (lines 83 and 88).
CpuStore(st, total, idle) ==
    [st EXCEPT !.prev_total = Some(total), !.prev_idle = Some(idle)]

CpuNextLateStore(st, total, idle) ==
    LET dt == total - Get(st.prev_total)
        di == idle - Get(st.prev_idle)
    IN IF dt <= 0 THEN CpuRate(st, dt, di)
       ELSE CpuRate(CpuStore(st, total, idle), dt, di)

\* compute() when a prior sample exists (lines 86-94): the deltas are taken
\* against the prior, the prior is overwritten, then the guard decides.
CpuNext(st, total, idle) ==
    LET dt == total - Get(st.prev_total)
        di == idle - Get(st.prev_idle)
    IN CpuRate(CpuStore(st, total, idle), dt, di)

\* CpuPercent.compute on tracker state st with /proc/stat contents src.
compute(st, src) ==
    LET rd == read_stat(src) IN
    IF rd.kind = "raise"
    THEN [st |-> st, kind |-> "raise", val |-> None, exc |-> rd.exc]
    ELSE IF st.prev_total = None
    THEN [st |-> [CpuStore(st, rd.total, rd.idle) EXCEPT !.value = None],
          kind |-> "return", val |-> None, exc |-> ""]
    ELSE CpuNext(st, rd.total, rd.idle)

(***************************************************************************)
(* NetRates                                                                *)
(***************************************************************************)
TicksPerSec == 2 * 1000            \* ticks of half a millisecond
FloorTicks == TicksPerSec \div 1000   \* the 0.001 s floor of line 122
FirstWindow == TicksPerSec         \* the window 1.0 of line 121

Times == {0, 1, 3, 2 * TicksPerSec}

NetInit == [prev |-> None, prev_t |-> None]

\* One line of /proc/net/dev after the two header lines: whether it holds a
\* colon, the text before the colon, and the numeric columns after it.
NetLine(ifname, rx, tx) ==
    [colon |-> TRUE, ifname |-> ifname, cols |-> <<rx, 0, 0, 0, 0, 0, 0, 0, tx>>]

EthLines == {NetLine("eth0", rx, tx) : rx \in {1000, 3000}, tx \in {2000, 2600}}
LoLines == {NetLine("lo", 500, 500)}
JunkLine == [colon |-> FALSE, ifname |-> "", cols |-> <<>>]
ShortLine == [colon |-> TRUE, ifname |-> "eth0", cols |-> <<12>>]

\* The contents of /proc/net/dev after its header, or None when the file
\* cannot be opened: no line, one line, both interfaces, a line without a
\* colon, a line with too few columns, an interface listed twice.
NetSources ==
    {None} \cup {Some(<<>>)}
    \cup {Some(<<a>>) : a \in EthLines \cup LoLines \cup {JunkLine, ShortLine}}
    \cup {Some(<<a, b>>) : a \in EthLines, b \in LoLines}
    \cup {Some(<<JunkLine, NetLine("eth0", 1000, 2000)>>),
          Some(<<NetLine("lo", 500, 500), ShortLine>>),
          Some(<<NetLine("eth0", 1000, 2000), NetLine("eth0", 3000, 2600)>>)}

RECURSIVE NetParse(_, _)
NetParse(lines, data) ==
    IF lines = <<>>
    THEN [kind |-> "return", exc |-> "", data |-> data]
    ELSE LET ln == Head(lines) IN
         IF ~ln.colon THEN NetParse(Tail(lines), data)
         ELSE IF Len(ln.cols) < 9
         THEN [kind |-> "raise", exc |-> "IndexError", data |-> data]
         ELSE NetParse(Tail(lines),
                       [k \in DOMAIN data \cup {ln.ifname} |->
                          IF k = ln.ifname THEN <<ln.cols[1], ln.cols[9]>> ELSE data[k]])

\* NetRates._read: the mapping interface -> (rx, tx).
net_read(src) ==
    IF src = None
    THEN [kind |-> "raise", exc |-> "FileNotFoundError", data |-> <<>>]
    ELSE NetParse(Get(src), <<>>)

FloorDiv(n, d) == n \div d

\* int(n/d): Python's int() truncates toward zero.
TruncDiv(n, d) ==
    LET a == IF n < 0 THEN -n ELSE n
        b == IF d < 0 THEN -d ELSE d
    IN IF (n < 0) # (d < 0) THEN -(a \div b) ELSE a \div b

NetWindowNoFloor(t, prev_t) == t - prev_t

\* dt = max(0.001, t - self.prev_t)
NetWindow(t, prev_t) == Max(FloorTicks, t - prev_t)

NetPriorZero(prev, k, cur) == IF k \in DOMAIN prev THEN prev[k] ELSE <<0, 0>>

\* self.prev.get(k, (rx,tx))
NetPrior(prev, k, cur) == IF k \in DOMAIN prev THEN prev[k] ELSE cur[k]

NetFirstRaw(st, cur, t) ==
    [st |-> [prev |-> Some(cur), prev_t |-> Some(t)],
     kind |-> "return", exc |-> "", window |-> FirstWindow, rates |-> cur]

\* rates() without a prior sample (lines 117-121).
NetFirst(st, cur, t) ==
    [st |-> [prev |-> Some(cur), prev_t |-> Some(t)],
     kind |-> "return", exc |-> "", window |-> FirstWindow,
     rates |-> [k \in DOMAIN cur |-> <<0, 0>>]]

\* rates() with a prior sample (lines 122-128).
NetNext(st, cur, t) ==
    LET dt == NetWindow(t, Get(st.prev_t))
        prev == Get(st.prev)
    IN IF dt = 0
       THEN [st |-> st, kind |-> "raise", exc |-> "ZeroDivisionError",
             window |-> 0, rates |-> <<>>]
       ELSE [st |-> [prev |-> Some(cur), prev_t |-> Some(t)],
             kind |-> "return", exc |-> "", window |-> dt,
             rates |-> [k \in DOMAIN cur |->
                 <<TruncDiv((cur[k][1] - NetPrior(prev, k, cur)[1]) * TicksPerSec, dt),
                   TruncDiv((cur[k][2] - NetPrior(prev, k, cur)[2]) * TicksPerSec, dt)>>]]

\* NetRates.rates on tracker state st with /proc/net/dev contents src at time t.
rates(st, src, t) ==
    LET rd == net_read(src) IN
    IF rd.kind = "raise"
    THEN [st |-> st, kind |-> "raise", exc |-> rd.exc, window |-> 0, rates |-> <<>>]
    ELSE IF st.prev = None THEN NetFirst(st, rd.data, t)
    ELSE NetNext(st, rd.data, t)

(***************************************************************************)
(* Stateless readers used by build_snapshot                                *)
(***************************************************************************)
\* One line of /proc/meminfo: whether it holds a colon, the key before it and
\* the tokens after it (a numeric token is <<n>>, any other token is None).
MemLine(key, kb) == [colon |-> TRUE, key |-> key, toks |-> <<Some(kb), None>>]

MemGet(m, k, default) == IF k \in DOMAIN m THEN m[k] ELSE default

RECURSIVE MemParse(_, _)
MemParse(lines, m) ==
    IF lines = <<>>
    THEN [kind |-> "return", m |-> m]
    ELSE LET ln == Head(lines) IN
         IF ~ln.colon \/ ln.toks = <<>> \/ Head(ln.toks) = None
         THEN [kind |-> "raise", m |-> m]
         ELSE MemParse(Tail(lines),
                       [k \in DOMAIN m \cup {ln.key} |->
                          IF k = ln.key THEN Get(Head(ln.toks)) * 1024 ELSE m[k]])

\* mem_info(): <<total, used, swap_total, swap_used>>; every exception is
\* swallowed and leaves the four values as they were when it was raised.
mem_info(src) ==
    LET p == IF src = None THEN [kind |-> "raise", m |-> <<>>]
             ELSE MemParse(Get(src), <<>>)
    IN IF p.kind = "raise"
       THEN <<None, None, None, None>>
       ELSE LET m == p.m
                total == IF "MemTotal" \in DOMAIN m THEN Some(m["MemTotal"]) ELSE None
                free == MemGet(m, "MemFree", 0) + MemGet(m, "Buffers", 0)
                        + MemGet(m, "Cached", 0) + MemGet(m, "SReclaimable", 0)
            IN <<total,
                 IF total # None THEN Some(Get(total) - free) ELSE None,
                 IF "SwapTotal" \in DOMAIN m THEN Some(m["SwapTotal"]) ELSE None,
                 Some(MemGet(m, "SwapTotal", 0) - MemGet(m, "SwapFree", 0))>>

\* fs_root(): os.statvfs("/") as <<f_frsize, f_blocks, f_bfree>>, or None when
\* the call fails (OSError, not caught).
fs_root(src) ==
    IF src = None
    THEN [kind |-> "raise", exc |-> "OSError", total |-> 0, used |-> 0]
    ELSE LET st == Get(src) IN
         [kind |-> "return", exc |-> "",
          total |-> st[1] * st[2], used |-> st[1] * st[2] - st[1] * st[3]]

RECURSIVE AddrParse(_, _)
AddrParse(lines, addrs) ==
    IF lines = <<>>
    THEN [kind |-> "return", exc |-> "", addrs |-> addrs]
    ELSE LET cols == Head(lines) IN
         IF Len(cols) < 4
         THEN [kind |-> "raise", exc |-> "IndexError", addrs |-> addrs]
         ELSE AddrParse(Tail(lines), Append(addrs, <<cols[2], cols[4]>>))

RECURSIVE FirstAddr(_, _)
FirstAddr(addrs, dev) ==
    IF addrs = <<>> THEN None
    ELSE IF Head(addrs)[1] = dev THEN Some(Head(addrs)[2])
    ELSE FirstAddr(Tail(addrs), dev)

\* primary_ip(): route is the (gateway, device) matched in the default route
\* line or None; out holds the whitespace-split lines of "ip -4 -o addr show".
primary_ip(route, out) ==
    LET p == AddrParse(out, <<>>) IN
    IF p.kind = "raise"
    THEN [kind |-> "raise", exc |-> p.exc, dev |-> None, ip |-> None, gw |-> None,
          addrs |-> <<>>]
    ELSE [kind |-> "return", exc |-> "",
          dev |-> IF route = None THEN None ELSE Some(Get(route)[2]),
          gw |-> IF route = None THEN None ELSE Some(Get(route)[1]),
          ip |-> IF route = None THEN None ELSE FirstAddr(p.addrs, Get(route)[2]),
          addrs |-> p.addrs]

\* The contents of /proc/meminfo, or None when the file cannot be opened:
\* any selection of the four lines mem_info reads, possibly followed by a
\* line without a colon or a line whose value is not a number.
MemPick(present, key, kb) == IF present THEN <<MemLine(key, kb)>> ELSE <<>>

MemSources ==
    {None}
    \cup {Some(MemPick(a, "MemTotal", 8) \o MemPick(b, "MemFree", 2)
               \o MemPick(c, "SwapTotal", 4) \o MemPick(d, "SwapFree", 1) \o tail) :
            a \in BOOLEAN, b \in BOOLEAN, c \in BOOLEAN, d \in BOOLEAN,
            tail \in {<<>>,
                      <<[colon |-> FALSE, key |-> "", toks |-> <<>>]>>,
                      <<[colon |-> TRUE, key |-> "HugePages", toks |-> <<None>>]>>}}

\* Whether the parse loop of mem_info raises on src.
mem_raises(src) ==
    IF src = None THEN TRUE ELSE MemParse(Get(src), <<>>).kind = "raise"

(***************************************************************************)
(* Disks                                                                   *)
(***************************************************************************)
ACTIVE == <<"a", "c", "t", "i", "v", "e">>
IDLE == <<"i", "d", "l", "e">>
STANDBY == <<"s", "t", "a", "n", "d", "b", "y">>
SLEEP == <<"s", "l", "e", "e", "p">>

SDA == <<"s", "d", "a">>
SDB == <<"s", "d", "b">>
LOOP0 == <<"l", "o", "o", "p", "0">>
RAM0 == <<"r", "a", "m", "0">>
DM1 == <<"d", "m", "-", "1">>
MD0 == <<"m", "d", "0">>
NVME == <<"n", "v", "m", "e", "0", "n", "1">>
NVMEP == <<"n", "v", "m", "e", "0", "n", "1", "p", "1">>
SR0 == <<"s", "r", "0">>
SDA1 == <<"s", "d", "a", "1">>

\* State texts hdparm prints, and texts that mix the keywords.
StateTexts ==
    {<<"a", "c", "t", "i", "v", "e", "/", "i", "d", "l", "e">>,
     <<"s", "t", "a", "n", "d", "b", "y">>,
     <<"s", "l", "e", "e", "p", "i", "n", "g">>,
     <<"u", "n", "k", "n", "o", "w", "n">>,
     <<"i", "d", "l", "e">>,
     <<" ", "S", "t", "a", "n", "d", "b", "y", " ">>,
     <<"A", "C", "T", "I", "V", "E">>,
     <<>>,
     <<"i", "d", "l", "e", "/", "s", "l", "e", "e", "p">>,
     <<"s", "t", "a", "n", "d", "b", "y", "/", "a", "c", "t", "i", "v", "e">>}

Letters == {"a", "b", "c", "d", "e", "f", "g", "h", "i", "j", "k", "l", "m",
            "n", "o", "p", "q", "r", "s", "t", "u", "v", "w", "x", "y", "z"}
Digits == {"0", "1", "2", "3", "4", "5", "6", "7", "8", "9"}

StartsWith(t, pre) == Len(t) >= Len(pre) /\ SubSeq(t, 1, Len(pre)) = pre

\* pat in t
Contains(t, pat) ==
    \E i \in 0..(Len(t) - Len(pat)) : SubSeq(t, i + 1, i + Len(pat)) = pat

\* re.match(r'^(sd[a-z]+)$', name)
IsSdName(name) ==
    /\ Len(name) >= 3
    /\ StartsWith(name, <<"s", "d">>)
    /\ \A i \in 3..Len(name) : name[i] \in Letters

\* re.match(r'^(nvme\d+n\d+)$', name)
IsNvmeName(name) ==
    /\ StartsWith(name, <<"n", "v", "m", "e">>)
    /\ \E k \in 6..(Len(name) - 1) :
          /\ name[k] = "n"
          /\ \A i \in 5..(k - 1) : name[i] \in Digits
          /\ \A i \in (k + 1)..Len(name) : name[i] \in Digits

\* re.match(r'^(loop|ram|dm-|md)', name)
IsPseudoName(name) ==
    \/ StartsWith(name, <<"l", "o", "o", "p">>)
    \/ StartsWith(name, <<"r", "a", "m">>)
    \/ StartsWith(name, <<"d", "m", "-">>)
    \/ StartsWith(name, <<"m", "d">>)

\* The entries os.listdir("/sys/block") may hold.
BlockNames ==
    {SDA, SDB, LOOP0, RAM0, DM1, MD0, NVME, NVMEP, SR0, SDA1}

\* list_block_devices(), as the set of names kept (sorted() fixes the order).
list_block_devices(names) ==
    {n \in names : ~IsPseudoName(n) /\ (IsSdName(n) \/ IsNvmeName(n))}

LowerChar(c) ==
    CASE c = "A" -> "a" [] c = "C" -> "c" [] c = "T" -> "t" [] c = "I" -> "i"
      [] c = "V" -> "v" [] c = "E" -> "e" [] c = "S" -> "s" [] c = "D" -> "d"
      [] c = "B" -> "b" [] c = "Y" -> "y" [] c = "N" -> "n" [] OTHER -> c

\* str.lower()
lower(t) == [i \in 1..Len(t) |-> LowerChar(t[i])]

\* What `hdparm -C` gives through sh(): ok is FALSE when the tool is missing
\* or exits non-zero (sh() returns ""), state is the text after
\* "drive state is:" or None when the output holds no such line.
HdparmOutputs ==
    {[ok |-> FALSE, state |-> None], [ok |-> TRUE, state |-> None]}
    \cup {[ok |-> TRUE, state |-> Some(t)] : t \in StateTexts}

ClassifyActiveFirst(state) ==
    IF Contains(state, ACTIVE) \/ Contains(state, IDLE) THEN Some("active")
    ELSE IF Contains(state, STANDBY) THEN Some("standby")
    ELSE IF Contains(state, SLEEP) THEN Some("standby")
    ELSE None

\* Lines 153-159 on the stripped, lowercased state text.
Classify(state) ==
    IF Contains(state, STANDBY) THEN Some("standby")
    ELSE IF Contains(state, SLEEP) THEN Some("standby")
    ELSE IF Contains(state, ACTIVE) \/ Contains(state, IDLE) THEN Some("active")
    ELSE None

\* disk_state(devname) when hdparm would give out: the state, and whether
\* the tool was run.
disk_state(devname, out) ==
    IF StartsWith(devname, <<"n", "v", "m", "e">>)
    THEN [state |-> Some("active"), invoked |-> FALSE]
    ELSE IF ~out.ok \/ out.state = None
    THEN [state |-> None, invoked |-> TRUE]
    ELSE [state |-> Classify(lower(strip(Get(out.state)))), invoked |-> TRUE]

\* read_disks() on the listing names, each device's hdparm output being out.
BlockOrder == <<NVME, SDA, SDB>>     \* sorted(devs)

RECURSIVE DiskList(_, _, _)
DiskList(order, devs, out) ==
    IF order = <<>> THEN <<>>
    ELSE IF Head(order) \in devs
    THEN <<[name |-> Head(order), state |-> disk_state(Head(order), out).state,
            temp_C |-> None]>> \o DiskList(Tail(order), devs, out)
    ELSE DiskList(Tail(order), devs, out)

read_disks(names, out) == DiskList(BlockOrder, list_block_devices(names), out)

(***************************************************************************)
(* Proxmox                                                                 *)
(***************************************************************************)
\* One whitespace-separated token of a listing: a run of digits (d, with its
\* value n) or any other word w.
Num(n) == [d |-> TRUE, n |-> n, w |-> ""]
Word(w) == [d |-> FALSE, n |-> 0, w |-> w]

\* One line of `qm list` / `pct list`: hdr says that the lowercased line
\* starts with "vmid" or "id", parts is ln.split().
PveLine(parts) == [hdr |-> FALSE, parts |-> parts]
PveHeader == [hdr |-> TRUE, parts |-> <<Word("VMID"), Word("NAME"), Word("STATUS")>>]

LowerWord(w) ==
    CASE w = "RUNNING" -> "running" [] w = "Stopped" -> "stopped" [] OTHER -> w

\* The loops of lines 178-185 and 189-202: the entries parsed from the lines
\* of one listing; cfg is the hostname `pct config` reports (None: no match).
RECURSIVE PveParse(_, _, _)
PveParse(lines, kind, cfg) ==
    IF lines = <<>> THEN <<>>
    ELSE LET ln == Head(lines)
             parts == ln.parts
             rest == PveParse(Tail(lines), kind, cfg)
         IN IF parts = <<>> \/ ln.hdr THEN rest
            ELSE IF Len(parts) >= 3 /\ parts[1].d
            THEN LET name == SubSeq(parts, 2, Len(parts) - 1)
                     numeric == Len(name) = 1 /\ name[1].d
                 IN <<[id |-> parts[1].n,
                       name |-> IF kind = "lxc" /\ numeric /\ cfg # None
                                THEN <<Word(Get(cfg))>> ELSE name,
                       status |-> LowerWord(parts[Len(parts)].w),
                       type |-> kind]>> \o rest
            ELSE rest

RECURSIVE CountRunning(_)
CountRunning(es) ==
    IF es = <<>> THEN 0
    ELSE (IF Head(es).status = "running" THEN 1 ELSE 0) + CountRunning(Tail(es))

PveInfoCopied(vms, lxcs) ==
    [vm_running |-> CountRunning(vms), vm_total |-> Len(vms),
     lxc_running |-> CountRunning(vms), lxc_total |-> Len(vms),
     vms |-> vms, lxcs |-> lxcs]

\* Lines 203-207: the counts over the two lists.
PveInfo(vms, lxcs) ==
    [vm_running |-> CountRunning(vms), vm_total |-> Len(vms),
     lxc_running |-> CountRunning(lxcs), lxc_total |-> Len(lxcs),
     vms |-> vms, lxcs |-> lxcs]

\* proxmox_info(): inp.qm / inp.pct say whether shutil.which finds the tool,
\* inp.qm_out / inp.pct_out are the lines its listing prints.
proxmox_info(inp) ==
    PveInfo(IF inp.qm THEN PveParse(inp.qm_out, "qemu", None) ELSE <<>>,
            IF inp.pct THEN PveParse(inp.pct_out, "lxc", inp.cfg) ELSE <<>>)

QmOutputs ==
    {<<>>,
     <<PveHeader, PveLine(<<Num(100), Word("web"), Word("running")>>)>>,
     <<PveHeader, PveLine(<<Num(100), Word("web"), Word("RUNNING")>>),
       PveLine(<<>>), PveLine(<<Num(101), Word("my"), Word("db"), Word("Stopped")>>)>>,
     <<PveLine(<<Num(102), Word("running")>>),
       PveLine(<<Word("x"), Word("y"), Word("z")>>)>>}

PctOutputs ==
    {<<>>,
     <<PveHeader, PveLine(<<Num(200), Word("dns"), Word("running")>>)>>,
     <<PveHeader, PveLine(<<Num(201), Num(201), Word("stopped")>>),
       PveLine(<<Num(202), Word("mail"), Word("running")>>)>>}

\* qm_out / pct_out are what the listing prints when it is run; the code
\* runs it only when the tool is found.
PveInputs ==
    {[qm |-> q, pct |-> c, qm_out |-> qo, pct_out |-> co, cfg |-> h] :
        q \in BOOLEAN, c \in BOOLEAN,
        qo \in QmOutputs, co \in PctOutputs, h \in {None, Some("ct201")}}

PveAbsent == [qm |-> FALSE, pct |-> FALSE, qm_out |-> <<>>, pct_out |-> <<>>, cfg |-> None]

HdparmStandby == [ok |-> TRUE, state |-> Some(STANDBY)]

(***************************************************************************)
(* build_snapshot and its serialisation                                    *)
(***************************************************************************)
\* socket.gethostname(): the kernel accepts any bytes as a host name.
Hostnames == {<<"p", "v", "e">>, <<"p", "\n", "\"">>}

IfaceOrder == <<"eth0", "lo">>      \* sorted(rates.items())

\* ifn in virt_if or ifn.startswith(("veth","tap","fw","vmbr"))
IsVirtual(ifn) == ifn = "lo"

RECURSIVE IfaceList(_, _)
IfaceList(order, rt) ==
    IF order = <<>> THEN <<>>
    ELSE IF Head(order) \in DOMAIN rt
    THEN <<[ifn |-> Head(order), rx |-> rt[Head(order)][1], tx |-> rt[Head(order)][2],
            virtual |-> IsVirtual(Head(order))]>> \o IfaceList(Tail(order), rt)
    ELSE IfaceList(Tail(order), rt)

RECURSIVE SumRates(_, _)
SumRates(ifs, i) ==
    IF ifs = <<>> THEN 0
    ELSE (IF i = 1 THEN Head(ifs).rx ELSE Head(ifs).tx) + SumRates(Tail(ifs), i)

\* build_snapshot(cfg, cpu_calc, net_calc) on the data sources of env. The
\* trackers are sampled first (lines 254 and 262); an exception raised by a
\* later step leaves the samples already taken in place.
build_snapshot(cst, nst, host, env) ==
    LET c == compute(cst, env.stat)
        n == rates(nst, env.net, env.t)
        fs == fs_root(env.fs)
        ip == primary_ip(env.route, env.addr)
    IN IF c.kind = "raise"
       THEN [kind |-> "raise", exc |-> c.exc, cpu |-> cst, net |-> nst, payload |-> None,
             net_called |-> FALSE]
       ELSE IF n.kind = "raise"
       THEN [kind |-> "raise", exc |-> n.exc, cpu |-> c.st, net |-> nst, payload |-> None,
             net_called |-> TRUE]
       ELSE IF fs.kind = "raise"
       THEN [kind |-> "raise", exc |-> fs.exc, cpu |-> c.st, net |-> n.st, payload |-> None,
             net_called |-> TRUE]
       ELSE IF ip.kind = "raise"
       THEN [kind |-> "raise", exc |-> ip.exc, cpu |-> c.st, net |-> n.st, payload |-> None,
             net_called |-> TRUE]
       ELSE [kind |-> "return", exc |-> "", cpu |-> c.st, net |-> n.st, net_called |-> TRUE,
             payload |-> Some(
               [hostname |-> host,
                cpu_percent |-> c.val,
                ram |-> mem_info(env.mem),
                fs_total |-> fs.total, fs_used |-> fs.used,
                proxmox |-> proxmox_info(env.pve),
                disks |-> read_disks(env.blk, env.hdparm),
                primary_ifname |-> ip.dev, primary_ipv4 |-> ip.ip,
                window_ms |-> RoundHalfEven(n.window * 1000, TicksPerSec),
                total_rx |-> SumRates(IfaceList(IfaceOrder, n.rates), 1),
                total_tx |-> SumRates(IfaceList(IfaceOrder, n.rates), 2),
                interfaces |-> IfaceList(IfaceOrder, n.rates)])]

JsonCharRaw(c) == <<c>>

\* json.dumps escapes the quote, the backslash and control characters.
JsonChar(c) ==
    IF c = "\n" THEN <<"\\n">>
    ELSE IF c = "\"" THEN <<"\\\"">>
    ELSE IF c = "\\" THEN <<"\\\\">>
    ELSE <<c>>

RECURSIVE JsonChars(_)
JsonChars(cs) == IF cs = <<>> THEN <<>> ELSE JsonChar(Head(cs)) \o JsonChars(Tail(cs))

JsonString(cs) == <<"\"">> \o JsonChars(cs) \o <<"\"">>

JsonInt(o) == IF o = None THEN <<"null">> ELSE <<ToString(Get(o))>>

\* A float with one decimal, given in tenths.
JsonTenths(o) ==
    IF o = None THEN <<"null">>
    ELSE <<ToString(Get(o) \div 10), ".", ToString(Get(o) % 10)>>

\* A float with at most three decimals, given in thousandths.
JsonMillis(m) ==
    <<ToString(m \div 1000), ".">>
    \o (IF m % 1000 = 0 THEN <<"0">>
        ELSE IF m % 100 = 0 THEN <<ToString((m % 1000) \div 100)>>
        ELSE IF m % 10 = 0
             THEN <<ToString((m % 1000) \div 100), ToString(((m % 100) \div 10))>>
        ELSE <<ToString((m % 1000) \div 100), ToString((m % 100) \div 10),
               ToString(m % 10)>>)

RECURSIVE JsonIfaces(_)
JsonIfaces(ifs) ==
    IF ifs = <<>> THEN <<>>
    ELSE <<"{", "\"if\":">> \o JsonString(<<Head(ifs).ifn>>)
         \o <<",", "\"rx_Bps\":", ToString(Head(ifs).rx),
              ",", "\"tx_Bps\":", ToString(Head(ifs).tx),
              ",", "\"virtual\":", IF Head(ifs).virtual THEN "true" ELSE "false", "}">>
         \o (IF Tail(ifs) = <<>> THEN <<>> ELSE <<",">>)
         \o JsonIfaces(Tail(ifs))

RECURSIVE JsonGuests(_)
JsonGuests(es) ==
    IF es = <<>> THEN <<>>
    ELSE <<"{", "\"id\":", ToString(Head(es).id),
           ",", "\"status\":">> \o JsonString(<<Head(es).status>>)
         \o <<",", "\"type\":">> \o JsonString(<<Head(es).type>>) \o <<"}">>
         \o (IF Tail(es) = <<>> THEN <<>> ELSE <<",">>)
         \o JsonGuests(Tail(es))

JsonPve(v) ==
    <<"{", "\"vm_running\":", ToString(v.vm_running),
      ",", "\"vm_total\":", ToString(v.vm_total),
      ",", "\"lxc_running\":", ToString(v.lxc_running),
      ",", "\"lxc_total\":", ToString(v.lxc_total),
      ",", "\"vms\":", "[">> \o JsonGuests(v.vms)
    \o <<"]", ",", "\"lxcs\":", "[">> \o JsonGuests(v.lxcs) \o <<"]", "}">>

RECURSIVE JsonDisks(_)
JsonDisks(ds) ==
    IF ds = <<>> THEN <<>>
    ELSE <<"{", "\"name\":">> \o JsonString(Head(ds).name)
         \o <<",", "\"state\":">>
         \o (IF Head(ds).state = None THEN <<"null">>
             ELSE JsonString(<<Get(Head(ds).state)>>))
         \o <<",", "\"temp_C\":", "null", "}">>
         \o (IF Tail(ds) = <<>> THEN <<>> ELSE <<",">>)
         \o JsonDisks(Tail(ds))

\* json.dumps(payload, separators=(',',':')): the text as a sequence of
\* tokens, each a character of a string value or a piece of fixed syntax.
JsonDumps(p) ==
    <<"{", "\"hostname\":">> \o JsonString(p.hostname)
    \o <<",", "\"cpu\":", "{", "\"percent\":">> \o JsonTenths(p.cpu_percent) \o <<"}">>
    \o <<",", "\"ram\":", "{", "\"total_bytes\":">> \o JsonInt(p.ram[1])
    \o <<",", "\"used_bytes\":">> \o JsonInt(p.ram[2])
    \o <<",", "\"swap_total_bytes\":">> \o JsonInt(p.ram[3])
    \o <<",", "\"swap_used_bytes\":">> \o JsonInt(p.ram[4]) \o <<"}">>
    \o <<",", "\"filesystems\":", "[", "{", "\"total_bytes\":", ToString(p.fs_total),
         ",", "\"used_bytes\":", ToString(p.fs_used), "}", "]">>
    \o <<",", "\"proxmox\":">> \o JsonPve(p.proxmox)
    \o <<",", "\"disks\":", "[">> \o JsonDisks(p.disks) \o <<"]">>
    \o <<",", "\"ip\":", "{", "\"primary_ifname\":">>
    \o (IF p.primary_ifname = None THEN <<"null">>
        ELSE JsonString(<<Get(p.primary_ifname)>>))
    \o <<",", "\"primary_ipv4\":">>
    \o (IF p.primary_ipv4 = None THEN <<"null">> ELSE JsonString(<<Get(p.primary_ipv4)>>))
    \o <<"}">>
    \o <<",", "\"net\":", "{", "\"window_s\":">> \o JsonMillis(p.window_ms)
    \o <<",", "\"total_rx_Bps\":", ToString(p.total_rx),
         ",", "\"total_tx_Bps\":", ToString(p.total_tx),
         ",", "\"total_rx_bps\":", ToString(p.total_rx * 8),
         ",", "\"total_tx_bps\":", ToString(p.total_tx * 8),
         ",", "\"interfaces\":", "[">>
    \o JsonIfaces(p.interfaces) \o <<"]", "}", "}">>

(***************************************************************************)
(* State                                                                   *)
(***************************************************************************)
CpuOutInit ==
    [kind |-> "none", val |-> None, exc |-> "", before |-> CpuInit, reading |-> None]

NetOutInit ==
    [kind |-> "none", exc |-> "", window |-> 0, rates |-> <<>>,
     before |-> NetInit, cur |-> None, t |-> None]

ReaderOutInit ==
    [fn |-> "none", mem_in |-> None, mem_out |-> <<None, None, None, None>>,
     disk_in |-> [dev |-> <<>>, out |-> [ok |-> FALSE, state |-> None]],
     disk_out |-> [state |-> None, invoked |-> FALSE],
     pve_in |-> PveAbsent, pve_out |-> PveInfo(<<>>, <<>>),
     snap |-> [kind |-> "none", exc |-> "", cpu |-> CpuInit, net |-> NetInit,
               payload |-> None, net_called |-> FALSE]]

Init ==
    /\ cpu_calc = CpuInit
    /\ cpu_out = CpuOutInit
    /\ net_calc = NetInit
    /\ net_out = NetOutInit
    /\ pc = "WAIT_FOR_DEVICE"
    /\ path_exists \in BOOLEAN
    /\ op = "none"
    /\ line = None
    /\ answered = FALSE
    /\ wire = <<>>
    /\ fault = ""
    /\ hostname \in Hostnames
    /\ count = [gets |-> 0, cpu |-> 0, net |-> 0]
    /\ sent = <<>>
    /\ reader_out = ReaderOutInit

\* What one compute() call leaves in cpu_out: its outcome, the tracker state
\* it started from and the reading it took (None when the read raised).
CpuOutcome(st, src) ==
    LET r == compute(st, src)
        rd == read_stat(src)
    IN [kind |-> r.kind, val |-> r.val, exc |-> r.exc, before |-> st,
        reading |-> IF rd.kind = "return" THEN Some(<<rd.total, rd.idle>>) ELSE None]

\* What one rates() call leaves in net_out.
NetOutcome(st, src, t) ==
    LET r == rates(st, src, t)
        rd == net_read(src)
    IN [kind |-> r.kind, exc |-> r.exc, window |-> r.window, rates |-> r.rates,
        before |-> st,
        cur |-> IF rd.kind = "return" THEN Some(rd.data) ELSE None,
        t |-> IF rd.kind = "return" THEN Some(t) ELSE None]

(***************************************************************************)
(* The trackers on their own: any sequence of compute() / rates() calls.   *)
(***************************************************************************)
CpuCall ==
    \E src \in StatSources :
        /\ cpu_calc' = compute(cpu_calc, src).st
        /\ cpu_out' = CpuOutcome(cpu_calc, src)
        /\ UNCHANGED <<netVars, serveVars, readerVars>>

NetCall ==
    \E src \in NetSources, t \in Times :
        /\ net_calc' = rates(net_calc, src, t).st
        /\ net_out' = NetOutcome(net_calc, src, t)
        /\ UNCHANGED <<cpuVars, serveVars, readerVars>>

SpecCpu == Init /\ [][CpuCall]_vars

SpecNet == Init /\ [][NetCall]_vars

(***************************************************************************)
(* serve: the serial protocol loop                                         *)
(***************************************************************************)
BAD == "xFF"     \* a byte that is not valid UTF-8

\* What ser.readline() can return: a line, a partial line or nothing (b"")
\* when the one-second timeout elapses.
RawLines ==
    { <<>>,
      <<"\n">>,
      <<"G", "E", "T", "\n">>,
      <<"g", "e", "t", "\n">>,
      <<" ", "G", "e", "t", "\r", "\n">>,
      <<"G", BAD, "E", "T", "\n">>,
      <<"G", "E", "T", "X", "\n">>,
      <<"s", "t", "a", "t", "u", "s", "\n">> }

IsValidByte(b) == b # BAD

\* bytes.decode(errors="ignore")
decode(bytes) == SelectSeq(bytes, IsValidByte)

UpperChar(c) ==
    CASE c = "g" -> "G" [] c = "e" -> "E" [] c = "t" -> "T" [] c = "s" -> "S"
      [] c = "a" -> "A" [] c = "u" -> "U" [] c = "x" -> "X" [] OTHER -> c

\* str.upper()
upper(t) == [i \in 1..Len(t) |-> UpperChar(t[i])]

\* cmd == "GET" for the line read (lines 327-333).
IsGet(raw) == upper(strip(strip(decode(raw)))) = <<"G", "E", "T">>

\* Where the SerialException handler (lines 343-351) takes the session.
OnSerialFaultRetry == "IDLE"

OnSerialFault == "DISCONNECTED"

\* The data sources one GET handling reads: the two trackers' sources, the
\* clock, and the sources of the stateless readers (all present, or one of
\* them missing or malformed).
ServeStat == {Some(<<1, 2>>), Some(<<1, 0, 0, 1, 0>>), Some(<<2, 0, 0, 2, 0>>)}
ServeNet ==
    {Some(<<ShortLine>>), Some(<<NetLine("eth0", 1000, 2000)>>)}
ServeTimes == {0, 2 * TicksPerSec}
MemOk ==
    Some(<<MemLine("MemTotal", 8), MemLine("MemFree", 2),
           MemLine("SwapTotal", 4), MemLine("SwapFree", 1)>>)
FsOk == Some(<<4096, 10, 4>>)
AddrOk == <<<<"2:", "eth0", "inet", "10.0.0.5/24">>>>
ServeReaders ==
    {[mem |-> MemOk, fs |-> FsOk, addr |-> AddrOk],
     [mem |-> None, fs |-> FsOk, addr |-> AddrOk],
     [mem |-> MemOk, fs |-> None, addr |-> AddrOk],
     [mem |-> MemOk, fs |-> FsOk, addr |-> <<<<"2:", "eth0">>>>]}

ServeEnvs ==
    {[stat |-> st, net |-> nt, t |-> t, mem |-> r.mem, fs |-> r.fs,
      route |-> Some(<<"10.0.0.1", "eth0">>), addr |-> r.addr,
      pve |-> PveAbsent, blk |-> {SDA, NVME, LOOP0}, hdparm |-> HdparmStandby] :
        st \in ServeStat, nt \in ServeNet, t \in ServeTimes, r \in ServeReaders}

\* Lines 315-318: the device path is polled until it exists.
WaitForDevice ==
    /\ pc = "WAIT_FOR_DEVICE"
    /\ ~path_exists
    /\ op' = "poll"
    /\ UNCHANGED <<cpuVars, netVars, readerVars, count, sent, pc, path_exists, line, answered, wire, fault, hostname>>

OpenSerialBlind ==
    /\ pc = "WAIT_FOR_DEVICE"
    /\ \E ok \in BOOLEAN :
          /\ pc' = IF ok THEN "IDLE" ELSE "CRASHED"
          /\ fault' = IF ok THEN "" ELSE "SerialException"
    /\ op' = "open"
    /\ UNCHANGED <<cpuVars, netVars, readerVars, count, sent, path_exists, line, answered, wire, hostname>>

\* Line 320: serial.Serial(...) opens the link; a failure to open is not
\* caught and ends the process.
OpenSerial ==
    /\ pc = "WAIT_FOR_DEVICE"
    /\ path_exists
    /\ \E ok \in BOOLEAN :
          /\ pc' = IF ok THEN "IDLE" ELSE "CRASHED"
          /\ fault' = IF ok THEN "" ELSE "SerialException"
    /\ op' = "open"
    /\ UNCHANGED <<cpuVars, netVars, readerVars, count, sent, path_exists, line, answered, wire, hostname>>

DispatchAny(raw) ==
    IF strip(decode(raw)) = <<>> THEN "IDLE" ELSE "RESPONDING"

\* Lines 328-333: an empty line is skipped, GET is handled, any other
\* command is ignored.
Dispatch(raw) ==
    IF strip(decode(raw)) = <<>> THEN "IDLE"
    ELSE IF IsGet(raw) THEN "RESPONDING"
    ELSE "IDLE"

OnOtherFaultReset == [pc |-> "IDLE", keep |-> FALSE]

\* Lines 352-355: any other exception is logged and, after a pause, the loop
\* goes on with the same link and the same tracker objects.
OnOtherFault == [pc |-> "IDLE", keep |-> TRUE]

AfterWriteStay == "RESPONDING"

\* Line 338 is the last statement of the GET branch: the loop reads again.
AfterWrite == "IDLE"

\* Lines 327-333 and 339-342: one readline() and the dispatch on its text.
ReadLine ==
    /\ pc = "IDLE"
    /\ Len(wire) < MaxWrites
    /\ count.gets < MaxGets
    /\ op' = "read"
    /\ answered' = FALSE
    /\ \/ \E raw \in RawLines :
             /\ line' = Some(raw)
             /\ fault' = ""
             /\ pc' = Dispatch(raw)
             /\ count' = IF Dispatch(raw) = "RESPONDING"
                         THEN [count EXCEPT !.gets = @ + 1] ELSE count
       \/ /\ line' = None
          /\ fault' = "SerialException"
          /\ pc' = OnSerialFault
          /\ count' = count
    /\ UNCHANGED <<cpuVars, netVars, readerVars, sent, path_exists, wire, hostname>>

\* Lines 334-338 and the handlers of lines 343-355: the snapshot is built,
\* serialised and written; an exception of build_snapshot is swallowed after
\* a pause, a SerialException of the write ends the cycle.
Respond ==
    /\ pc = "RESPONDING"
    /\ \E env \in ServeEnvs, wok \in BOOLEAN :
          LET b == build_snapshot(cpu_calc, net_calc, hostname, env) IN
          /\ count' = [count EXCEPT !.cpu = @ + 1,
                                    !.net = @ + (IF b.net_called THEN 1 ELSE 0)]
          /\ IF b.kind = "raise"
             THEN /\ pc' = OnOtherFault.pc
                  /\ cpu_calc' = IF OnOtherFault.keep THEN b.cpu ELSE CpuInit
                  /\ net_calc' = IF OnOtherFault.keep THEN b.net ELSE NetInit
                  /\ fault' = b.exc
                  /\ op' = "none"
                  /\ UNCHANGED <<wire, sent, answered>>
             ELSE /\ op' = "write"
                  /\ cpu_calc' = b.cpu
                  /\ net_calc' = b.net
                  /\ IF wok
                     THEN /\ wire' = Append(wire, JsonDumps(Get(b.payload)) \o <<"\n">>)
                          /\ sent' = Append(sent, Get(b.payload))
                          /\ answered' = TRUE
                          /\ fault' = ""
                          /\ pc' = AfterWrite
                     ELSE /\ fault' = "SerialException"
                          /\ pc' = OnSerialFault
                          /\ UNCHANGED <<wire, sent, answered>>
    /\ UNCHANGED <<cpu_out, net_out, readerVars, path_exists, line, hostname>>

\* Lines 347-348: after a link fault the device path is polled again.
DisconnectedWait ==
    /\ pc = "DISCONNECTED"
    /\ ~path_exists
    /\ op' = "poll"
    /\ UNCHANGED <<cpuVars, netVars, readerVars, count, sent, pc, path_exists, line, answered, wire, fault, hostname>>

\* Lines 350-351: once the path exists, serve() returns (the with block
\* closes the link).
Terminate ==
    /\ pc = "DISCONNECTED"
    /\ path_exists
    /\ pc' = "TERMINATED"
    /\ op' = "poll"
    /\ UNCHANGED <<cpuVars, netVars, readerVars, count, sent, path_exists, line, answered, wire, fault, hostname>>

\* The environment: the device node appears and disappears.
DeviceAppear ==
    /\ ~path_exists
    /\ path_exists' = TRUE
    /\ UNCHANGED <<cpuVars, netVars, readerVars, count, sent, pc, op, line, answered, wire, fault, hostname>>

DeviceVanish ==
    /\ path_exists
    /\ path_exists' = FALSE
    /\ UNCHANGED <<cpuVars, netVars, readerVars, count, sent, pc, op, line, answered, wire, fault, hostname>>

Next ==
    \/ WaitForDevice
    \/ OpenSerial
    \/ ReadLine
    \/ Respond
    \/ DisconnectedWait
    \/ Terminate
    \/ DeviceAppear
    \/ DeviceVanish

Spec == Init /\ [][Next]_vars

\* The poll of lines 347-348 runs once a second: when the path stays present
\* the loop leaves it and serve() returns.
FairSpec == Spec /\ WF_vars(Terminate)

(***************************************************************************)
(* The stateless readers on their own: any sequence of their calls, each   *)
(* call leaving its input and its result in reader_out.                    *)
(***************************************************************************)
ReaderEnv(mem, pve, blk, out) ==
    [stat |-> Some(<<1, 0, 0, 1, 0>>), net |-> Some(<<NetLine("eth0", 1000, 2000)>>),
     t |-> 0, mem |-> mem, fs |-> FsOk,
     route |-> Some(<<"10.0.0.1", "eth0">>), addr |-> AddrOk,
     pve |-> pve, blk |-> blk, hdparm |-> out]

\* The snapshot a fresh session builds from the given reader inputs.
ReaderSnapshot(mem, pve, blk, out) ==
    build_snapshot(CpuInit, NetInit, <<"p", "v", "e">>, ReaderEnv(mem, pve, blk, out))

MemCall ==
    \E src \in MemSources :
        /\ reader_out' = [ReaderOutInit EXCEPT
                             !.fn = "mem_info", !.mem_in = src,
                             !.mem_out = mem_info(src),
                             !.snap = ReaderSnapshot(src, PveAbsent, {}, HdparmStandby)]
        /\ UNCHANGED <<cpuVars, netVars, serveVars>>

DiskCall ==
    \E dev \in list_block_devices(BlockNames), out \in HdparmOutputs :
        /\ reader_out' = [ReaderOutInit EXCEPT
                             !.fn = "disk_state", !.disk_in = [dev |-> dev, out |-> out],
                             !.disk_out = disk_state(dev, out),
                             !.snap = ReaderSnapshot(MemOk, PveAbsent, BlockNames, out)]
        /\ UNCHANGED <<cpuVars, netVars, serveVars>>

PveCall ==
    \E inp \in PveInputs :
        /\ reader_out' = [ReaderOutInit EXCEPT
                             !.fn = "proxmox_info", !.pve_in = inp,
                             !.pve_out = proxmox_info(inp),
                             !.snap = ReaderSnapshot(MemOk, inp, {}, HdparmStandby)]
        /\ UNCHANGED <<cpuVars, netVars, serveVars>>

SpecReaders == Init /\ [][MemCall \/ DiskCall \/ PveCall]_vars

(***************************************************************************)
(* Properties of CpuPercent                                                *)
(***************************************************************************)
CpuHadPrior == cpu_out.before.prev_total # None
CpuRead == cpu_out.reading # None
CpuTotal == Get(cpu_out.reading)[1]
CpuIdle == Get(cpu_out.reading)[2]
CpuDeltaTotal == CpuTotal - Get(cpu_out.before.prev_total)
CpuDeltaIdle == CpuIdle - Get(cpu_out.before.prev_idle)

\* C1 - first-sample law: a compute() on a tracker without a prior sample
\* returns None and stores its reading; a compute() whose total is strictly
\* greater than the stored prior total returns a percentage within [0,100]
\* (0..1000 tenths), whatever the two idle values are.
ThmC1 ==
    (cpu_out.kind # "none" /\ CpuRead) =>
        /\ ~CpuHadPrior =>
              /\ cpu_out.kind = "return"
              /\ cpu_out.val = None
              /\ cpu_calc.prev_total = Some(CpuTotal)
              /\ cpu_calc.prev_idle = Some(CpuIdle)
        /\ (CpuHadPrior /\ CpuDeltaTotal > 0) =>
              /\ cpu_out.kind = "return"
              /\ cpu_out.val # None
              /\ Get(cpu_out.val) \in 0..1000

\* A later call whose idle delta exceeds the total delta.
WitC1 ==
    /\ cpu_out.kind = "return" /\ CpuRead /\ CpuHadPrior
    /\ CpuDeltaTotal > 0
    /\ CpuDeltaIdle > CpuDeltaTotal
    /\ cpu_out.val = Some(0)

\* C2 - delta non-negativity: a compute() after the first whose total does
\* not advance returns None and raises nothing.
ThmC2 ==
    (cpu_out.kind # "none" /\ CpuRead /\ CpuHadPrior /\ CpuDeltaTotal <= 0) =>
        /\ cpu_out.kind = "return"
        /\ cpu_out.val = None

\* A call after the first whose total equals the prior total.
WitC2 ==
    /\ cpu_out.kind = "return" /\ CpuRead /\ CpuHadPrior
    /\ CpuDeltaTotal = 0
    /\ CpuDeltaIdle # 0

\* C3 - sliding window of one: after every compute() that returns, the
\* stored prior is the reading that call took.
ThmC3 ==
    cpu_out.kind = "return" =>
        /\ cpu_calc.prev_total = Some(CpuTotal)
        /\ cpu_calc.prev_idle = Some(CpuIdle)

\* An anomalous call (total went backwards) that nevertheless replaced the prior.
WitC3 ==
    /\ cpu_out.kind = "return" /\ CpuHadPrior
    /\ CpuDeltaTotal < 0
    /\ cpu_out.val = None
    /\ cpu_calc.prev_total # cpu_out.before.prev_total

(***************************************************************************)
(* Properties of NetRates                                                  *)
(***************************************************************************)
NetReturned == net_out.kind = "return"
NetHadPrior == net_out.before.prev # None
NetCur == Get(net_out.cur)
NetPrev == Get(net_out.before.prev)
NetElapsed == Get(net_out.t) - Get(net_out.before.prev_t)
NetBoth == DOMAIN NetCur \cap DOMAIN NetPrev

Abs(n) == IF n < 0 THEN -n ELSE n

\* q is n/d truncated toward zero (d > 0): |q| is the largest integer with
\* |q| * d <= |n|, and q carries the sign of n.
IsTruncated(q, n, d) ==
    /\ Abs(q) * d <= Abs(n)
    /\ Abs(n) < (Abs(q) + 1) * d
    /\ (n >= 0 => q >= 0)
    /\ (n <= 0 => q <= 0)

\* C4 - network zero-baseline: the first rates() on a tracker without a prior
\* returns the window 1.0 and rate (0,0) for every interface of the reading,
\* and stores the reading and its timestamp as the prior.
ThmC4 ==
    (net_out.kind # "none" /\ net_out.cur # None /\ ~NetHadPrior) =>
        /\ NetReturned
        /\ net_out.window = TicksPerSec
        /\ DOMAIN net_out.rates = DOMAIN NetCur
        /\ \A k \in DOMAIN NetCur : net_out.rates[k] = <<0, 0>>
        /\ net_calc.prev = net_out.cur
        /\ net_calc.prev_t = net_out.t

\* A first call that read two interfaces with non-zero counters.
WitC4 ==
    /\ NetReturned /\ ~NetHadPrior
    /\ DOMAIN NetCur = {"eth0", "lo"}
    /\ NetCur["eth0"] = <<3000, 2600>>
    /\ NetCur["lo"] = <<500, 500>>
    /\ net_out.rates["eth0"] = <<0, 0>>

\* C5 as stated: for every interface in both readings the rates are the
\* counter deltas divided by the time since the prior sample, truncated
\* toward zero.
CexC5 ==
    (NetReturned /\ NetHadPrior /\ NetElapsed > 0) =>
        \A k \in NetBoth :
            /\ IsTruncated(net_out.rates[k][1],
                           (NetCur[k][1] - NetPrev[k][1]) * TicksPerSec, NetElapsed)
            /\ IsTruncated(net_out.rates[k][2],
                           (NetCur[k][2] - NetPrev[k][2]) * TicksPerSec, NetElapsed)

\* The divisor of the amended C5: the elapsed time, but never less than 1 ms.
NetFlooredElapsed == IF NetElapsed > FloorTicks THEN NetElapsed ELSE FloorTicks

\* C5 - network rate correctness, amended: for every interface in both
\* readings the rates are the counter deltas divided by
\* dt = max(0.001 s, time since the prior sample), truncated toward zero, and
\* dt is the returned window; prior (1000,2000) at t=0 and current
\* (3000,2600) at t=2.0 give (1000,300) with window 2.0.
ThmC5 ==
    (NetReturned /\ NetHadPrior) =>
        /\ net_out.window = NetFlooredElapsed
        /\ \A k \in NetBoth :
            /\ IsTruncated(net_out.rates[k][1],
                           (NetCur[k][1] - NetPrev[k][1]) * TicksPerSec, NetFlooredElapsed)
            /\ IsTruncated(net_out.rates[k][2],
                           (NetCur[k][2] - NetPrev[k][2]) * TicksPerSec, NetFlooredElapsed)
        /\ ( /\ "eth0" \in NetBoth
             /\ NetPrev["eth0"] = <<1000, 2000>> /\ net_out.before.prev_t = Some(0)
             /\ NetCur["eth0"] = <<3000, 2600>> /\ net_out.t = Some(2 * TicksPerSec) )
           => /\ net_out.rates["eth0"] = <<1000, 300>>
              /\ net_out.window = 2 * TicksPerSec

\* A counter that decreased over 1.5 ms: the quotient is negative and not
\* an integer, and it is truncated toward zero.
WitC5 ==
    /\ NetReturned /\ NetHadPrior
    /\ "eth0" \in NetBoth
    /\ NetElapsed = 3
    /\ NetCur["eth0"][1] - NetPrev["eth0"][1] = -2000
    /\ net_out.rates["eth0"][1] = -1333333

\* C6 - interface churn: the returned mapping has exactly the interfaces of
\* the current reading, an interface absent from the prior gets (0,0), and
\* the stored prior mapping and timestamp are replaced by the current ones.
ThmC6 ==
    NetReturned =>
        /\ DOMAIN net_out.rates = DOMAIN NetCur
        /\ NetHadPrior =>
              \A k \in DOMAIN NetCur \ DOMAIN NetPrev : net_out.rates[k] = <<0, 0>>
        /\ net_calc.prev = net_out.cur
        /\ net_calc.prev_t = net_out.t

\* eth0 appears and lo vanishes between two readings.
WitC6 ==
    /\ NetReturned /\ NetHadPrior
    /\ DOMAIN NetPrev = {"lo"}
    /\ DOMAIN NetCur = {"eth0"}
    /\ NetCur["eth0"] = <<3000, 2000>>
    /\ net_out.rates["eth0"] = <<0, 0>>
    /\ NetElapsed > FloorTicks

\* C19 - network window floor: a rates() call after the first raises
\* nothing whatever the two timestamps are, its window is never below 1 ms
\* and is the elapsed time whenever that is at least 1 ms, and no rate has
\* the sign opposite to its counter delta (the divisor is never negative).
ThmC19 ==
    (net_out.kind # "none" /\ net_out.cur # None /\ NetHadPrior) =>
        /\ NetReturned
        /\ net_out.window >= FloorTicks
        /\ NetElapsed >= FloorTicks => net_out.window = NetElapsed
        /\ NetElapsed <= FloorTicks => net_out.window = FloorTicks
        /\ \A k \in NetBoth : \A i \in 1..2 :
              /\ NetCur[k][i] >= NetPrev[k][i] => net_out.rates[k][i] >= 0
              /\ NetCur[k][i] <= NetPrev[k][i] => net_out.rates[k][i] <= 0

\* The clock moved backwards between two samples whose counters grew.
WitC19 ==
    /\ NetReturned /\ NetHadPrior
    /\ NetElapsed < 0
    /\ "eth0" \in NetBoth
    /\ NetCur["eth0"][1] > NetPrev["eth0"][1]
    /\ net_out.window = FloorTicks
    /\ net_out.rates["eth0"][1] > 0

\* Two samples with the same timestamp.
NetSameInstantSeen == NetReturned /\ NetHadPrior /\ NetElapsed = 0

\* The worked example of C5 occurs.
NetExampleSeen ==
    /\ NetReturned /\ NetHadPrior /\ "eth0" \in NetBoth
    /\ NetPrev["eth0"] = <<1000, 2000>> /\ net_out.before.prev_t = Some(0)
    /\ NetCur["eth0"] = <<3000, 2600>> /\ net_out.t = Some(2 * TicksPerSec)

(***************************************************************************)
(* Properties of the protocol loop                                         *)
(***************************************************************************)
\* The text is "GET" in any letter case, surrounded by any whitespace.
TextIsGet(t) ==
    \E i \in 0..Len(t) :
        /\ i + 3 <= Len(t)
        /\ \A p \in 1..i : t[p] \in Whitespace
        /\ t[i + 1] \in {"g", "G"}
        /\ t[i + 2] \in {"e", "E"}
        /\ t[i + 3] \in {"t", "T"}
        /\ \A p \in (i + 4)..Len(t) : t[p] \in Whitespace

\* A cycle of the loop has run to its end on a working link.
CycleDone == pc = "IDLE" /\ line # None

\* C7 - command recognition: a received line has got a response if and only
\* if its text, trimmed and uppercased, is "GET"; any other line has caused
\* no write.
CexC7 == CycleDone => (answered <=> TextIsGet(decode(Get(line))))

\* C7 restricted to cycles in which build_snapshot raised nothing.
RecognitionWithoutFault ==
    (CycleDone /\ fault = "") => (answered <=> TextIsGet(decode(Get(line))))

\* One buffer handed to ser.write is one serialized snapshot, free of
\* newlines, followed by one newline.
IsResponseLine(buf) ==
    /\ Len(buf) >= 4
    /\ buf[Len(buf)] = "\n"
    /\ \A i \in 1..(Len(buf) - 1) : buf[i] # "\n"
    /\ buf[1] = "{"
    /\ buf[2] = "\"hostname\":"
    /\ buf[Len(buf) - 1] = "}"
    /\ Cardinality({i \in 1..Len(buf) : buf[i] = "{"})
         = Cardinality({i \in 1..Len(buf) : buf[i] = "}"})
    /\ Cardinality({i \in 1..Len(buf) : buf[i] = "\""}) % 2 = 0

\* C8 - wire framing: everything written to the link is a sequence of
\* responses, each one serialized snapshot without an embedded newline
\* followed by exactly one newline.
ThmC8 == \A i \in 1..Len(wire) : IsResponseLine(wire[i])

\* Two different responses on the wire of a host whose name holds a newline.
WitC8 ==
    /\ Len(wire) = 2
    /\ wire[1] # wire[2]
    /\ \E i \in 1..Len(hostname) : hostname[i] = "\n"

CexC10 ==
    /\ fault \in {"", "SerialException"}
    /\ (CycleDone /\ IsGet(Get(line))) => answered

\* What does hold: a missing or malformed memory-info source is absorbed (the
\* response is written with the RAM fields null).
MemFaultAbsorbed ==
    \E i \in 1..Len(wire) : \E j \in 1..(Len(wire[i]) - 1) :
        wire[i][j] = "\"total_bytes\":" /\ wire[i][j + 1] = "null"

(***************************************************************************)
(* Properties of the stateless readers                                     *)
(***************************************************************************)
MemCalled == reader_out.fn = "mem_info"
MemKeys == IF reader_out.mem_in = None THEN {}
           ELSE {Get(reader_out.mem_in)[i].key : i \in 1..Len(Get(reader_out.mem_in))}
\* The four RAM fields of the snapshot built from the same source.
SnapRam == Get(reader_out.snap.payload).ram

\* C13 - unknown RAM values are never numbers: a parse exception makes all
\* four RAM fields of the snapshot absent, used_bytes is absent whenever
\* total_bytes is absent and swap_used_bytes is absent whenever
\* swap_total_bytes is absent.
CexC13 ==
    MemCalled =>
        /\ reader_out.snap.kind = "return"
        /\ SnapRam = reader_out.mem_out
        /\ mem_raises(reader_out.mem_in) => SnapRam = <<None, None, None, None>>
        /\ SnapRam[1] = None => SnapRam[2] = None
        /\ SnapRam[3] = None => SnapRam[4] = None

\* What does hold: a parse exception leaves all four fields absent, and
\* used_bytes follows total_bytes.
MemAbsentOnRaise ==
    MemCalled =>
        /\ reader_out.snap.kind = "return"
        /\ mem_raises(reader_out.mem_in) => SnapRam = <<None, None, None, None>>
        /\ SnapRam[1] = None => SnapRam[2] = None
        /\ ("SwapTotal" \in MemKeys /\ ~mem_raises(reader_out.mem_in)) =>
              SnapRam[3] # None /\ SnapRam[4] # None

\* A memory-info source without a SwapTotal line: swap_total_bytes is absent
\* and swap_used_bytes is the negated SwapFree.
MemSwapUsedDefaulted ==
    /\ MemCalled
    /\ ~mem_raises(reader_out.mem_in)
    /\ "SwapTotal" \notin MemKeys /\ "SwapFree" \in MemKeys
    /\ SnapRam[3] = None
    /\ SnapRam[4] = Some(0 - 1024)

DiskCalled == reader_out.fn = "disk_state"
DiskDev == reader_out.disk_in.dev
DiskTool == reader_out.disk_in.out
\* The state text the tool reported, case-folded (None: failure or no line).
DiskText == IF DiskTool.ok /\ DiskTool.state # None
            THEN Some(lower(Get(DiskTool.state))) ELSE None
DiskHas(pat) == DiskText # None /\ Contains(Get(DiskText), pat)
\* The records of the device in the disks list of the snapshot.
SnapDisk ==
    {Get(reader_out.snap.payload).disks[i] :
        i \in {j \in 1..Len(Get(reader_out.snap.payload).disks) :
                 Get(reader_out.snap.payload).disks[j].name = DiskDev}}

\* C12 - disk classification: a device whose name matches the NVMe pattern
\* is "active" and the power-state tool is not run; any other device gets
\* "standby" when the reported state text contains "standby" or "sleep",
\* otherwise "active" when it contains "active" or "idle", otherwise (tool
\* failure and missing state line included) absent.
ThmC12 ==
    DiskCalled =>
        /\ IsNvmeName(DiskDev) =>
              reader_out.disk_out = [state |-> Some("active"), invoked |-> FALSE]
        /\ ~IsNvmeName(DiskDev) =>
              /\ reader_out.disk_out.invoked
              /\ reader_out.disk_out.state =
                    IF DiskHas(STANDBY) \/ DiskHas(SLEEP) THEN Some("standby")
                    ELSE IF DiskHas(ACTIVE) \/ DiskHas(IDLE) THEN Some("active")
                    ELSE None
        /\ reader_out.snap.kind = "return"
        /\ SnapDisk = {[name |-> DiskDev, state |-> reader_out.disk_out.state,
                        temp_C |-> None]}

\* sda reported as "standby/active": standby wins.
WitC12 ==
    /\ DiskCalled
    /\ DiskDev = SDA
    /\ DiskHas(STANDBY) /\ DiskHas(ACTIVE)
    /\ reader_out.disk_out = [state |-> Some("standby"), invoked |-> TRUE]

\* nvme0n1 is active whatever the tool would have said.
DiskNvmeSeen ==
    /\ DiskCalled
    /\ DiskDev = NVME
    /\ DiskHas(STANDBY)
    /\ reader_out.disk_out = [state |-> Some("active"), invoked |-> FALSE]

\* sda with a failing tool, and with a text that holds no keyword.
DiskAbsentSeen ==
    /\ DiskCalled
    /\ DiskDev = SDA
    /\ reader_out.disk_out = [state |-> None, invoked |-> TRUE]
    /\ ~DiskTool.ok \/ (DiskText # None /\ Len(Get(DiskText)) > 0)

PveCalled == reader_out.fn = "proxmox_info"
\* The proxmox object of the snapshot built with the same tools.
SnapPve == Get(reader_out.snap.payload).proxmox

\* C11 - snapshot resilience: with neither qm nor pct installed the snapshot
\* is built without a fault and its proxmox object has the four counts zero
\* and both lists empty; with one tool missing, that tool's list is empty and
\* its two counts are zero.
ThmC11 ==
    PveCalled =>
        /\ reader_out.snap.kind = "return"
        /\ reader_out.snap.payload # None
        /\ SnapPve = reader_out.pve_out
        /\ ~reader_out.pve_in.qm =>
              SnapPve.vms = <<>> /\ SnapPve.vm_total = 0 /\ SnapPve.vm_running = 0
        /\ ~reader_out.pve_in.pct =>
              SnapPve.lxcs = <<>> /\ SnapPve.lxc_total = 0 /\ SnapPve.lxc_running = 0
        /\ (~reader_out.pve_in.qm /\ ~reader_out.pve_in.pct) =>
              SnapPve = [vm_running |-> 0, vm_total |-> 0, lxc_running |-> 0,
                         lxc_total |-> 0, vms |-> <<>>, lxcs |-> <<>>]

\* Only qm is installed and lists two guests, one of them running: the
\* containers' half stays empty.
WitC11 ==
    /\ PveCalled
    /\ reader_out.pve_in.qm /\ ~reader_out.pve_in.pct
    /\ SnapPve.vm_total = 2 /\ SnapPve.vm_running = 1
    /\ SnapPve.lxc_total = 0 /\ SnapPve.lxcs = <<>>

\* Neither tool is installed.
PveBothAbsentSeen ==
    /\ PveCalled
    /\ ~reader_out.pve_in.qm /\ ~reader_out.pve_in.pct
    /\ SnapPve.vm_total = 0 /\ SnapPve.lxc_total = 0

\* A container listed with a numeric name takes the hostname of its config.
PveHostnameSeen ==
    /\ PveCalled
    /\ \E i \in 1..Len(SnapPve.lxcs) :
          SnapPve.lxcs[i].id = 201 /\ SnapPve.lxcs[i].name = <<Word("ct201")>>

(***************************************************************************)
(* Properties of the request cycle                                         *)
(***************************************************************************)
\* The step is a readline() of the loop.
IsReadStep == op' = "read" /\ <<pc, line, fault, answered, count>>' # <<pc, line, fault, answered, count>>
\* The step hands a response to ser.write.
IsWriteStep == wire' # wire
\* The last line read is a GET command.
LineIsGet == line # None /\ TextIsGet(decode(Get(line)))

\* C14 - strictly synchronous cycle: a line is read only when no request is
\* in flight (every GET read before has been handled), a response is written
\* only for the one GET that is in flight, one response at most per GET and
\* in the order of the GETs, and never more responses than GETs read.
ThmC14 ==
    /\ [](Len(wire) <= count.gets /\ Len(sent) = Len(wire))
    /\ [](pc = "RESPONDING" => LineIsGet /\ ~answered /\ count.gets = count.cpu + 1)
    /\ [][ /\ IsReadStep => pc = "IDLE" /\ count.cpu = count.gets
           /\ IsWriteStep =>
                 /\ pc = "RESPONDING" /\ pc' # "RESPONDING"
                 /\ Len(wire') = Len(wire) + 1
                 /\ SubSeq(wire', 1, Len(wire)) = wire
                 /\ count'.cpu = count.gets
         ]_vars

\* Two GETs read, two responses written, the second after the second GET.
WitC14 ==
    /\ pc = "IDLE" /\ op = "write" /\ answered
    /\ count.gets = 2 /\ Len(wire) = 2

\* C15 - one sample of each tracker per GET: once a GET has been handled,
\* compute() and rates() have each been called as many times as GET commands
\* were handled.
CexC15 ==
    pc # "RESPONDING" => count.cpu = count.gets /\ count.net = count.gets

\* What does hold: a handling in which build_snapshot raises nothing calls
\* each tracker once, and rates() is never called more often than compute().
SamplesWithoutFault ==
    /\ [](count.net <= count.cpu /\ count.cpu <= count.gets)
    /\ [][(pc = "RESPONDING" /\ pc' # pc /\ fault' \in {"", "SerialException"}) =>
             count'.cpu = count.cpu + 1 /\ count'.net = count.net + 1]_vars

\* A GET handled with compute() raising: rates() was never called.
SamplesUnequalSeen ==
    /\ pc = "IDLE" /\ LineIsGet /\ fault = "IndexError"
    /\ count.gets = 1 /\ count.cpu = 1 /\ count.net = 0

\* C16 - non-link faults keep the session alive: when the handling of a GET
\* ends with a fault that is not a serial fault, the loop is back in IDLE on
\* the same link, nothing was written, and a tracker that had a prior sample
\* still has one (it is not reset).
ThmC16 ==
    [][(pc = "RESPONDING" /\ fault' \notin {"", "SerialException"}) =>
          /\ pc' = "IDLE"
          /\ wire' = wire
          /\ cpu_calc # CpuInit => cpu_calc' # CpuInit
          /\ net_calc # NetInit => net_calc' # NetInit
      ]_vars

\* The first GET ended with a fault of build_snapshot, the second GET on the
\* same link was answered.
WitC16 ==
    /\ pc = "IDLE" /\ answered /\ op = "write"
    /\ count.gets = 2 /\ count.cpu = 2 /\ Len(wire) = 1

\* C17 - wait for device: while the path does not exist the session stays
\* in WAIT_FOR_DEVICE and only polls (no open, no read, no write, no end);
\* the link is opened only in a state in which the path exists.
ThmC17 ==
    /\ [](pc = "WAIT_FOR_DEVICE" =>
             op \in {"none", "poll"} /\ wire = <<>> /\ line = None /\ count.gets = 0)
    /\ [][ /\ (pc = "WAIT_FOR_DEVICE" /\ ~path_exists) =>
                 /\ pc' = "WAIT_FOR_DEVICE"
                 /\ op' \in {op, "poll"}
                 /\ UNCHANGED <<wire, line, cpu_calc, net_calc, count>>
           /\ (pc = "WAIT_FOR_DEVICE" /\ pc' # pc) => path_exists /\ op' = "open"
         ]_vars

\* The session has polled for the device and the path is still absent.
WitC17 == pc = "WAIT_FOR_DEVICE" /\ op = "poll" /\ ~path_exists

\* The link was opened once the path existed.
OpenedSeen == pc = "IDLE" /\ op = "open"

\* C18 - ignored input has no effect: a step that changes a tracker or the
\* wire is the handling of a GET, and the read of a timeout, an empty line
\* or any other command leaves the loop in IDLE with both trackers and the
\* wire unchanged.
ThmC18 ==
    /\ [](pc = "RESPONDING" => LineIsGet)
    /\ [][ /\ (cpu_calc' # cpu_calc \/ net_calc' # net_calc \/ wire' # wire) =>
                 pc = "RESPONDING" /\ LineIsGet
           /\ (IsReadStep /\ line' # None /\ ~TextIsGet(decode(Get(line')))) =>
                 /\ pc' = "IDLE"
                 /\ UNCHANGED <<cpu_calc, net_calc, wire, count>>
         ]_vars

\* A command other than GET was read after one GET had been answered: the
\* trackers hold their samples and the wire its one response.
WitC18 ==
    /\ pc = "IDLE" /\ op = "read" /\ line # None
    /\ decode(Get(line)) = <<"s", "t", "a", "t", "u", "s", "\n">>
    /\ cpu_calc # CpuInit /\ net_calc # NetInit
    /\ Len(wire) = 1

\* A read timeout after one answered GET.
TimeoutIgnoredSeen ==
    /\ pc = "IDLE" /\ op = "read" /\ line = Some(<<>>)
    /\ cpu_calc # CpuInit /\ Len(wire) = 1

\* The response carries no rates.
IsFreshResponse(p) ==
    /\ p.cpu_percent = None
    /\ p.window_ms = 1000
    /\ \A i \in 1..Len(p.interfaces) :
          p.interfaces[i].rx = 0 /\ p.interfaces[i].tx = 0

\* C20 - the first response of a session carries no rates: cpu.percent is
\* null, net.window_s is 1.0 and every interface rate is (0,0).
CexC20 == Len(sent) >= 1 => IsFreshResponse(sent[1])

\* What does hold: a first response written by the first handling of the
\* session carries no rates.
FirstHandlingFresh ==
    [][(Len(sent) = 0 /\ Len(sent') = 1 /\ count.cpu = 0) => IsFreshResponse(sent'[1])]_vars

\* The first response of a session, written by the second GET, with a CPU
\* percentage.
FirstResponseWithRate ==
    /\ Len(sent) = 1 /\ count.gets = 2
    /\ sent[1].cpu_percent # None

====
